---- MODULE Spec2Model ----
(***************************************************************************)
(* De Bruijn graph assembler (src/Assembler.py): the k-mers of a file are  *)
(* turned into a multigraph on (k-1)-mers, a start node is chosen from the *)
(* degree tables and an iterative Hierholzer walk consumes the edges and   *)
(* glues the visited nodes into the reconstructed string.                  *)
(*                                                                         *)
(* A Python str is modelled as the sequence of its code points (ord of     *)
(* each character: "AB," is <<65, 66, 44>>), a dict as a function (the     *)
(* graph also keeps the insertion order of its keys, which is the order    *)
(* `for node in graph` iterates in), None as the empty option <<>> and a   *)
(* node n as the option <<n>>.  content is the text file.read() returned.  *)
(***************************************************************************)
EXTENDS Integers, Sequences, FiniteSets

VARIABLES entry, content, kmers, graph, in_degree, out_degree, start_node,
          call, arg, stack, path, returned, error, output, pc

vars == <<entry, content, kmers, graph, in_degree, out_degree, start_node,
          call, arg, stack, path, returned, error, output, pc>>

(* ------------------------------ bounds --------------------------------- *)
\* longest file content read by main
MaxContent == 5
\* longest k-mer list handed to the pipeline directly
MaxKmers == 4
\* longest string decomposed into its k-mers
MaxLen == 7

\* the bases of the generated k-mers: A, B
Alphabet == {65, 66}
\* the characters str.strip() removes, those of str.isspace(): \t \n \x0b
\* \x0c \r, \x1c-\x1f, the blank, \x85, \xa0, U+1680, U+2000-U+200A,
\* U+2028, U+2029, U+202F, U+205F, U+3000
Whitespace ==
    {9, 10, 11, 12, 13, 28, 29, 30, 31, 32, 133, 160, 5760}
        \cup (8192..8202) \cup {8232, 8233, 8239, 8287, 12288}
\* the separator of split(',')
Comma == 44
\* the characters of the generated file contents: A, B, the comma, the
\* blank and the newline
FileChars == Alphabet \cup {Comma, 32, 10}
\* k-mer lengths of the well-formed inputs
Ks == {2, 3}

SeqsUpTo(S, n) == UNION {[1..m -> S] : m \in 0..n}
SeqsOfLen(S, n) == [1..n -> S]

(* ------------------------- Python primitives --------------------------- *)
\* dict.get with a default (defaultdict read of a missing key yields it)
DictGet(d, key, default) == IF key \in DOMAIN d THEN d[key] ELSE default

\* d[key] = value
DictSet(d, key, value) ==
    [x \in (DOMAIN d) \cup {key} |-> IF x = key THEN value ELSE d[x]]

\* s[:-1]
AllButLast(s) == IF Len(s) = 0 THEN <<>> ELSE SubSeq(s, 1, Len(s) - 1)

\* s[1:]
AllButFirst(s) == IF Len(s) = 0 THEN <<>> ELSE SubSeq(s, 2, Len(s))

RECURSIVE lstrip(_)
lstrip(s) ==
    IF s # <<>> /\ Head(s) \in Whitespace THEN lstrip(Tail(s)) ELSE s

RECURSIVE rstrip(_)
rstrip(s) ==
    IF s # <<>> /\ s[Len(s)] \in Whitespace THEN rstrip(AllButLast(s)) ELSE s

\* str.strip()
strip(s) == rstrip(lstrip(s))

\* str.split(','): always at least one token
RECURSIVE split(_)
split(s) ==
    IF \E i \in 1..Len(s) : s[i] = Comma
    THEN LET i == CHOOSE j \in 1..Len(s) :
                      s[j] = Comma /\ \A h \in 1..(j - 1) : s[h] # Comma
         IN  <<SubSeq(s, 1, i - 1)>> \o split(SubSeq(s, i + 1, Len(s)))
    ELSE <<s>>

(* ------------------------ read_kmers_from_file ------------------------- *)
read_kmers_from_file(text) == split(strip(text))

(* ------------------------ build_de_bruijn_graph ------------------------ *)
EmptyDict == <<>>
EmptyGraph == [keys |-> <<>>, adj |-> EmptyDict]

\* graph[node] on the defaultdict(list): a missing key is inserted with []
Vivify(g, node) ==
    IF node \in DOMAIN g.adj THEN g
    ELSE [keys |-> Append(g.keys, node), adj |-> DictSet(g.adj, node, <<>>)]

\* variant: in_degree[suffix] = 1 instead of += 1
add_edge_dropping_in_degree(st, kmer) ==
    LET prefix == AllButLast(kmer)
        suffix == AllButFirst(kmer)
        g      == Vivify(st.graph, prefix)
    IN  [graph      |-> [g EXCEPT !.adj = DictSet(g.adj, prefix,
                                             Append(g.adj[prefix], suffix))],
         out_degree |-> DictSet(st.out_degree, prefix,
                                DictGet(st.out_degree, prefix, 0) + 1),
         in_degree  |-> DictSet(st.in_degree, suffix, 1)]

\* one iteration of the loop over the k-mers (lines 34-45)
add_edge(st, kmer) ==
    LET prefix == AllButLast(kmer)
        suffix == AllButFirst(kmer)
        g      == Vivify(st.graph, prefix)
    IN  [graph      |-> [g EXCEPT !.adj = DictSet(g.adj, prefix,
                                             Append(g.adj[prefix], suffix))],
         out_degree |-> DictSet(st.out_degree, prefix,
                                DictGet(st.out_degree, prefix, 0) + 1),
         in_degree  |-> DictSet(st.in_degree, suffix,
                                DictGet(st.in_degree, suffix, 0) + 1)]

RECURSIVE build_loop(_, _, _)
build_loop(st, ks, i) ==
    IF i > Len(ks) THEN st ELSE build_loop(add_edge(st, ks[i]), ks, i + 1)

build_de_bruijn_graph(ks) ==
    build_loop([graph |-> EmptyGraph, in_degree |-> EmptyDict,
                out_degree |-> EmptyDict], ks, 1)

(* -------------------------- find_starting_node ------------------------- *)
\* variant: the test of line 59 with the degrees swapped
RECURSIVE scan_heavy_in(_, _, _, _, _)
scan_heavy_in(g, ind, outd, i, cand) ==
    IF i > Len(g.keys) THEN [node |-> cand, visited |-> Len(g.keys)]
    ELSE LET node == g.keys[i]
             o    == DictGet(outd, node, 0)
             n    == DictGet(ind, node, 0)
         IN  IF n - o = 1 THEN [node |-> <<node>>, visited |-> i]
             ELSE scan_heavy_in(g, ind, outd, i + 1,
                                IF n = o THEN <<node>> ELSE cand)

\* the loop over the graph's keys from position i on, cand the start_node
\* saved so far; yields the returned option and the number of keys visited.
\* A balanced node overwrites cand each time, so the last one is kept
RECURSIVE scan(_, _, _, _, _)
scan(g, ind, outd, i, cand) ==
    IF i > Len(g.keys) THEN [node |-> cand, visited |-> Len(g.keys)]
    ELSE LET node == g.keys[i]
             o    == DictGet(outd, node, 0)
             n    == DictGet(ind, node, 0)
         IN  IF o - n = 1 THEN [node |-> <<node>>, visited |-> i]
             ELSE scan(g, ind, outd, i + 1, IF n = o THEN <<node>> ELSE cand)

find_starting_node(g, ind, outd) == scan(g, ind, outd, 1, <<>>).node

\* reading out_degree[node] and in_degree[node] inserts a 0 for a missing key
Touched(d, g, ind, outd) ==
    LET n == scan(g, ind, outd, 1, <<>>).visited
        seen == {g.keys[i] : i \in 1..n}
    IN  [x \in (DOMAIN d) \cup seen |-> DictGet(d, x, 0)]

(* ---------------------------- reconstruct_dna -------------------------- *)
\* variant: the first element is handed out
pop_first_value(l) == l[1]

\* list.pop(): the last element
PopValue(l) == l[Len(l)]

\* variant: two elements leave the list
drop_two(l) == SubSeq(l, 1, Len(l) - 2)

\* list.pop(): the list without its last element
PopRest(l) == AllButLast(l)

\* variant: deque.append
append_right(p, node) == Append(p, node)

\* deque.appendleft
appendleft(p, node) == <<node>> \o p

\* variant: the first node alone
first_node_only(p) == [status |-> "ok", value |-> Head(p)]

\* variant: node instead of node[-1]
RECURSIVE whole_nodes(_)
whole_nodes(p) == IF p = <<>> THEN <<>> ELSE Head(p) \o whole_nodes(Tail(p))

\* [node[-1] for node in path]
RECURSIVE last_chars(_)
last_chars(p) ==
    IF p = <<>> THEN <<>>
    ELSE <<Head(p)[Len(Head(p))]>> \o last_chars(Tail(p))

\* the result expression: path.popleft() in full, then node[-1] of every
\* remaining node; node[-1] of an empty node raises IndexError
join_path(p) ==
    IF \E i \in 2..Len(p) : Len(p[i]) = 0
    THEN [status |-> "IndexError", value |-> <<>>]
    ELSE [status |-> "ok", value |-> Head(p) \o last_chars(Tail(p))]

(* ------------------------------- inputs -------------------------------- *)
\* the overlapping k-mers of S, sliding window, step 1, in order
KmersOf(S, k) == [i \in 1..(Len(S) - k + 1) |-> SubSeq(S, i, i + k - 1)]

KmerLists == UNION {SeqsUpTo(SeqsOfLen(Alphabet, k), MaxKmers) : k \in Ks}

Decompositions ==
    UNION {{KmersOf(S, k) : S \in {T \in SeqsUpTo(Alphabet, MaxLen) :
                                     Len(T) >= k}} : k \in Ks}

\* the scenarios of the design: the path AAB,ABC,BCD,CDA over a four-letter
\* alphabet and the circuit ABA,BAB
PathScenario ==
    << <<65, 65, 66>>, <<65, 66, 67>>, <<66, 67, 68>>, <<67, 68, 65>> >>
CircuitScenario == << <<65, 66, 65>>, <<66, 65, 66>> >>

Nodes == (DOMAIN graph.adj) \cup (DOMAIN in_degree)

(* -------------------------------- state -------------------------------- *)
Init ==
    /\ \/ /\ entry = "main"
          /\ content \in SeqsUpTo(FileChars, MaxContent)
          /\ kmers = <<>>
          /\ pc = "read"
       \/ /\ entry = "functions"
          /\ content = <<>>
          /\ kmers \in KmerLists \cup Decompositions
                       \cup {PathScenario, CircuitScenario}
          /\ pc = "build"
    /\ graph = EmptyGraph
    /\ in_degree = EmptyDict
    /\ out_degree = EmptyDict
    /\ start_node = <<>>
    /\ call = 0
    /\ arg = <<>>
    /\ stack = <<>>
    /\ path = <<>>
    /\ returned = <<>>
    /\ error = "none"
    /\ output = <<>>

\* main, line 104
Read ==
    /\ pc = "read"
    /\ kmers' = read_kmers_from_file(content)
    /\ pc' = "build"
    /\ UNCHANGED <<entry, content, graph, in_degree, out_degree, start_node,
                   call, arg, stack, path, returned, error, output>>

\* main, line 106
Build ==
    /\ pc = "build"
    /\ LET st == build_de_bruijn_graph(kmers)
       IN  /\ graph' = st.graph
           /\ in_degree' = st.in_degree
           /\ out_degree' = st.out_degree
    /\ pc' = "select"
    /\ UNCHANGED <<entry, content, kmers, start_node, call, arg, stack, path,
                   returned, error, output>>

\* main, line 108
Select ==
    /\ pc = "select"
    /\ start_node' = find_starting_node(graph, in_degree, out_degree)
    /\ in_degree' = Touched(in_degree, graph, in_degree, out_degree)
    /\ out_degree' = Touched(out_degree, graph, in_degree, out_degree)
    /\ pc' = "check"
    /\ UNCHANGED <<entry, content, kmers, graph, call, arg, stack, path,
                   returned, error, output>>

\* main, lines 111-113: no start node
RaiseNoStart ==
    /\ pc = "check"
    /\ start_node = <<>>
    /\ error' = "ValueError"
    /\ pc' = "raised"
    /\ UNCHANGED <<entry, content, kmers, graph, in_degree, out_degree,
                   start_node, call, arg, stack, path, returned, output>>

\* main, line 116, entering reconstruct_dna (lines 76-78)
CallReconstruct ==
    /\ pc = "check"
    /\ start_node # <<>>
    /\ call' = 1
    /\ arg' = start_node[1]
    /\ stack' = <<start_node[1]>>
    /\ path' = <<>>
    /\ pc' = "walk"
    /\ UNCHANGED <<entry, content, kmers, graph, in_degree, out_degree,
                   start_node, returned, error, output>>

\* lines 83-89: the top of the stack has an edge left
WalkPush ==
    /\ pc = "walk"
    /\ stack # <<>>
    /\ LET current == stack[Len(stack)]
           g       == Vivify(graph, current)
       IN  /\ g.adj[current] # <<>>
           /\ graph' = [g EXCEPT !.adj[current] = PopRest(g.adj[current])]
           /\ stack' = Append(stack, PopValue(g.adj[current]))
    /\ UNCHANGED <<entry, content, kmers, in_degree, out_degree, start_node,
                   call, arg, path, returned, error, output, pc>>

\* variant: the walk stops at the first dead end, the stack being the path
WalkStopAtDeadEnd ==
    /\ pc = "walk"
    /\ stack # <<>>
    /\ LET current == stack[Len(stack)]
           g       == Vivify(graph, current)
       IN  /\ g.adj[current] = <<>>
           /\ graph' = g
           /\ path' = stack
           /\ stack' = <<>>
    /\ pc' = "join"
    /\ UNCHANGED <<entry, content, kmers, in_degree, out_degree, start_node,
                   call, arg, returned, error, output>>

\* lines 83-85, 91-93: the top of the stack has no edge left
WalkPop ==
    /\ pc = "walk"
    /\ stack # <<>>
    /\ LET current == stack[Len(stack)]
           g       == Vivify(graph, current)
       IN  /\ g.adj[current] = <<>>
           /\ graph' = g
           /\ path' = appendleft(path, PopValue(stack))
           /\ stack' = PopRest(stack)
    /\ pc' = IF stack' = <<>> THEN "join" ELSE "walk"
    /\ UNCHANGED <<entry, content, kmers, in_degree, out_degree, start_node,
                   call, arg, returned, error, output>>

\* line 96, and in main the exception leaving it or the value reaching 116
Return ==
    /\ pc = "join"
    /\ LET r == join_path(path)
       IN  /\ returned' = Append(returned, r)
           /\ path' = Tail(path)
           /\ IF call = 1
              THEN IF r.status = "ok"
                   THEN pc' = "write" /\ error' = error
                   ELSE pc' = "raised" /\ error' = r.status
              ELSE pc' = "end" /\ error' = error
    /\ UNCHANGED <<entry, content, kmers, graph, in_degree, out_degree,
                   start_node, call, arg, stack, output>>

\* main, lines 119-121
Write ==
    /\ pc = "write"
    /\ output' = <<returned[1].value>>
    /\ pc' = "done"
    /\ UNCHANGED <<entry, content, kmers, graph, in_degree, out_degree,
                   start_node, call, arg, stack, path, returned, error>>

\* reconstruct_dna called once more on the graph object the first call
\* consumed (lines 76-78), from any of its nodes
CallAgain ==
    /\ call = 1
    /\ \/ pc = "done"
       \/ pc = "raised" /\ error = "IndexError"
    /\ \E s \in Nodes :
          /\ arg' = s
          /\ stack' = <<s>>
    /\ call' = 2
    /\ path' = <<>>
    /\ pc' = "walk"
    /\ UNCHANGED <<entry, content, kmers, graph, in_degree, out_degree,
                   start_node, returned, error, output>>

Next ==
    \/ Read
    \/ Build
    \/ Select
    \/ RaiseNoStart
    \/ CallReconstruct
    \/ WalkPush
    \/ WalkPop
    \/ Return
    \/ Write
    \/ CallAgain

Spec == Init /\ [][Next]_vars

\* the while loop of reconstruct_dna keeps iterating while it can
FairSpec == Spec /\ WF_vars(WalkPush \/ WalkPop)

(* ------------------------ vocabulary of the claims --------------------- *)
N == Len(kmers)
Range(l) == {l[i] : i \in 1..Len(l)}
AdjOf(g, node) == DictGet(g.adj, node, <<>>)
Out(node) == DictGet(out_degree, node, 0)
In(node) == DictGet(in_degree, node, 0)

RECURSIVE SumDict(_)
SumDict(d) ==
    IF DOMAIN d = {} THEN 0
    ELSE LET x == CHOOSE y \in DOMAIN d : TRUE
         IN  d[x] + SumDict([y \in (DOMAIN d) \ {x} |-> d[y]])

EdgeCount(g) == SumDict([n \in DOMAIN g.adj |-> Len(g.adj[n])])
AllConsumed == \A n \in DOMAIN graph.adj : graph.adj[n] = <<>>

\* all k-mers have one length k >= 2
WellFormed ==
    /\ kmers # <<>>
    /\ Len(kmers[1]) >= 2
    /\ \A i \in 1..N : Len(kmers[i]) = Len(kmers[1])
K == Len(kmers[1])

\* the k-mers are the sliding windows of one string, which is Original
IsSliding ==
    /\ WellFormed
    /\ \A i \in 1..(N - 1) : AllButFirst(kmers[i]) = AllButLast(kmers[i + 1])
Original == kmers[1] \o [i \in 1..(N - 1) |-> kmers[i + 1][K]]

BagOfSeq(l) == [x \in Range(l) |-> Cardinality({i \in 1..Len(l) : l[i] = x})]
Windows(S, k) == BagOfSeq(KmersOf(S, k))

\* the list l without the first occurrence of w
WithoutOne(l, w) ==
    LET i == CHOOSE j \in 1..Len(l) : l[j] = w /\ \A h \in 1..(j - 1) : l[h] # w
    IN  SubSeq(l, 1, i - 1) \o SubSeq(l, i + 1, Len(l))

\* the node sequences of the walks from v that use each of the e edges of
\* adj exactly once
RECURSIVE EulerianPaths(_, _, _)
EulerianPaths(adj, v, e) ==
    IF e = 0 THEN {<<v>>}
    ELSE LET out == DictGet(adj, v, <<>>)
         IN  UNION {{<<v>> \o p :
                       p \in EulerianPaths([adj EXCEPT ![v] = WithoutOne(out, w)],
                                           w, e - 1)} : w \in Range(out)}

\* the Eulerian paths of the graph as built, from the chosen start node
PathsFromStart ==
    EulerianPaths(build_de_bruijn_graph(kmers).graph.adj, start_node[1], N)

\* the first call of reconstruct_dna has returned a string
FirstReturned == returned # <<>> /\ returned[1].status = "ok"
ok(value) == [status |-> "ok", value |-> value]

(* -------------------------------- claims ------------------------------- *)
\* C1 as stated: the k-mers of any string S (2 <= k <= len(S)), fed in order
\* to build_de_bruijn_graph, find_starting_node and reconstruct_dna, give
\* back exactly S.
C1_RoundTripAnyString ==
    IsSliding =>
        /\ pc # "raised"
        /\ returned # <<>> => returned[1] = ok(Original)

\* S read as a cycle and entered at position i, when the first and the last
\* (k-1)-mer of S are the same
Rotation(i) ==
    [j \in 1..(N + K - 1) |-> Original[((i + j - 2) % N) + 1]]

\* C1 amended: when the graph has exactly one Eulerian path from the chosen
\* start node, the round trip gives back S if the first and the last
\* (k-1)-mer of S differ, and otherwise S read as a cycle from the chosen
\* start node (a rotation, with the k-mers of S).
C1_RoundTripUniquePath ==
    (IsSliding /\ pc \notin {"read", "build", "select"}) =>
        /\ pc # "raised"
        /\ start_node # <<>>
        /\ AllButLast(kmers[1]) # AllButFirst(kmers[N])
              => start_node = <<AllButLast(kmers[1])>>
        /\ (returned # <<>> /\ Cardinality(PathsFromStart) = 1) =>
              IF AllButLast(kmers[1]) # AllButFirst(kmers[N])
              THEN returned[1] = ok(Original)
              ELSE /\ returned[1] \in {ok(Rotation(i)) : i \in 1..N}
                   /\ SubSeq(returned[1].value, 1, K - 1) = start_node[1]
                   /\ Windows(returned[1].value, K) = BagOfSeq(kmers)

\* a string with a repeated (k-1)-mer and a single Eulerian path came back
C1_Witness ==
    /\ IsSliding
    /\ N >= 4
    /\ \E i, j \in 1..N : i # j /\ AllButLast(kmers[i]) = AllButLast(kmers[j])
    /\ AllButLast(kmers[1]) # AllButFirst(kmers[N])
    /\ pc = "done"
    /\ Cardinality(PathsFromStart) = 1
    /\ output = <<Original>>

\* C2: an empty input (no k-mer, or an empty file) ends main with the
\* no-valid-start ValueError: it raises nothing else and writes nothing.
C2_EmptyInputRaisesNoStart ==
    (IF entry = "main" THEN content = <<>> ELSE kmers = <<>>) =>
        \/ pc \in {"read", "build", "select", "check"}
        \/ pc = "raised" /\ error = "ValueError" /\ output = <<>>

\* C3: when the graph has exactly one Eulerian path from the chosen start
\* node, reconstruct_dna returns a string whose length-k windows are, as a
\* multiset, the input k-mers; AAB,ABC,BCD,CDA gives AABCDA and the circuit
\* ABA,BAB gives a rotation of the cycle.
C3_UniquePathReproducesKmers ==
    /\ (WellFormed /\ returned # <<>> /\ Cardinality(PathsFromStart) = 1) =>
          /\ returned[1].status = "ok"
          /\ Len(returned[1].value) = N + K - 1
          /\ Windows(returned[1].value, K) = BagOfSeq(kmers)
    /\ (kmers = PathScenario /\ returned # <<>>) =>
          returned[1] = ok(<<65, 65, 66, 67, 68, 65>>)
    /\ (kmers = CircuitScenario /\ returned # <<>>) =>
          returned[1] \in {ok(<<65, 66, 65, 66>>), ok(<<66, 65, 66, 65>>)}

\* a unique path through a repeated node has been reconstructed
C3_Witness ==
    /\ WellFormed
    /\ N >= 3
    /\ pc = "done"
    /\ Cardinality(PathsFromStart) = 1
    /\ \E i, j \in 1..N : i # j /\ AllButLast(kmers[i]) = AllButLast(kmers[j])
    /\ Windows(output[1], K) = BagOfSeq(kmers)

\* C4 as stated: whenever find_starting_node returned a node, every
\* adjacency list is empty once reconstruct_dna has returned.
C4_AllEdgesConsumed ==
    (call = 1 /\ FirstReturned) => AllConsumed

\* C4 amended: every adjacency list is empty once reconstruct_dna has
\* returned, provided the graph has an Eulerian path from the chosen start.
C4_AllEdgesConsumedOnEulerian ==
    (call = 1 /\ returned # <<>> /\ PathsFromStart # {}) => AllConsumed

\* a walk that had to back up from a dead end has consumed every edge
C4_Witness ==
    /\ call = 1
    /\ pc = "done"
    /\ N >= 4
    /\ PathsFromStart # {}
    /\ Cardinality(PathsFromStart) > 1
    /\ AllConsumed

\* C5 as stated: for N k-mers of one length k >= 2 on which the pipeline
\* completes without raising, the returned string has length N + k - 1.
C5_LengthWheneverNoRaise ==
    (WellFormed /\ FirstReturned) => Len(returned[1].value) = N + K - 1

\* C5 amended: for N k-mers of one length k >= 2 on which the pipeline
\* completes, the returned string has length N + k - 1 - R, R being the
\* number of edges left in the adjacency lists when reconstruct_dna returns;
\* so it has length N + k - 1 exactly when every edge was consumed, which is
\* the case whenever the graph has an Eulerian path from the chosen start.
C5_LengthByConsumedEdges ==
    (WellFormed /\ call = 1 /\ returned # <<>>) =>
        /\ returned[1].status = "ok"
        /\ Len(returned[1].value) = N + K - 1 - EdgeCount(graph)
        /\ Len(returned[1].value) = N + K - 1 <=> AllConsumed
        /\ PathsFromStart # {} => Len(returned[1].value) = N + K - 1

\* a reconstruction from three or more k-mers has the full length
C5_Witness ==
    /\ WellFormed
    /\ N >= 3
    /\ pc = "done"
    /\ PathsFromStart # {}
    /\ Len(output[1]) = N + K - 1

\* C6: with exactly one node of out - in = 1, exactly one of in - out = 1
\* and every other node balanced, find_starting_node returns the node of
\* out - in = 1 and main does not raise the no-valid-start error.
C6_StartIsOutHeavyNode ==
    LET heavy == {n \in Nodes : Out(n) - In(n) = 1}
        light == {n \in Nodes : In(n) - Out(n) = 1}
    IN  (/\ pc \notin {"read", "build", "select"}
         /\ Cardinality(heavy) = 1
         /\ Cardinality(light) = 1
         /\ \A n \in Nodes \ (heavy \cup light) : In(n) = Out(n)) =>
            /\ start_node \in {<<n>> : n \in heavy}
            /\ error # "ValueError"

\* the out-heavy node was chosen although a balanced node precedes it
C6_Witness ==
    /\ pc = "walk"
    /\ call = 1
    /\ Cardinality({n \in Nodes : Out(n) - In(n) = 1}) = 1
    /\ Cardinality({n \in Nodes : In(n) - Out(n) = 1}) = 1
    /\ \A n \in Nodes : Out(n) - In(n) \in {-1, 0, 1}
    /\ Out(graph.keys[1]) = In(graph.keys[1])
    /\ Out(start_node[1]) - In(start_node[1]) = 1

\* C7: when no node has out - in = 1, find_starting_node returns the first
\* balanced node of the iteration order, the balanced node that appeared
\* earliest as a prefix in the input.
C7_FallbackIsFirstBalanced ==
    LET balanced == {i \in 1..Len(graph.keys) :
                        In(graph.keys[i]) = Out(graph.keys[i])}
    IN  (/\ pc = "check"
         /\ \A n \in Nodes : Out(n) - In(n) # 1
         /\ balanced # {}) =>
            start_node = <<graph.keys[CHOOSE i \in balanced :
                                         \A j \in balanced : i <= j]>>

\* C8: right after build_de_bruijn_graph the out-degrees, the in-degrees
\* and the adjacency lists each add up to the number of k-mers, and every
\* node's out-degree is the length of its adjacency list.
C8_DegreeSum ==
    pc = "select" =>
        /\ SumDict(out_degree) = N
        /\ SumDict(in_degree) = N
        /\ EdgeCount(graph) = N
        /\ \A n \in Nodes : Out(n) = Len(AdjOf(graph, n))

\* a graph with a node entered twice and a node left twice was built
C8_Witness ==
    /\ pc = "select"
    /\ N >= 3
    /\ \E n \in Nodes : In(n) >= 2
    /\ \E n \in Nodes : Out(n) >= 2
    /\ SumDict(in_degree) = N

\* one iteration of the walk: an edge leaves the graph and its target is
\* pushed, or the top of the stack is popped and prepended to the path
PushShape ==
    LET current == stack[Len(stack)]
        edges   == AdjOf(graph, current)
    IN  /\ edges # <<>>
        /\ stack' = Append(stack, edges[Len(edges)])
        /\ path' = path
        /\ AdjOf(graph', current) = SubSeq(edges, 1, Len(edges) - 1)
        /\ \A n \in Nodes \ {current} : AdjOf(graph', n) = AdjOf(graph, n)
        /\ EdgeCount(graph') = EdgeCount(graph) - 1

PopShape ==
    /\ stack' = SubSeq(stack, 1, Len(stack) - 1)
    /\ path' = <<stack[Len(stack)]>> \o path
    /\ \A n \in Nodes : AdjOf(graph', n) = AdjOf(graph, n)
    /\ EdgeCount(graph') = EdgeCount(graph)

\* an adjacency list only ever loses elements from its end
NoEdgeInserted ==
    \A n \in Nodes :
        /\ Len(AdjOf(graph', n)) <= Len(AdjOf(graph, n))
        /\ AdjOf(graph', n) = SubSeq(AdjOf(graph, n), 1, Len(AdjOf(graph', n)))

\* C9: the walk loop of reconstruct_dna ends with an empty stack, whatever
\* the graph and the start node; each iteration removes one edge and pushes
\* its target or pops one node and prepends it to the path, and no edge is
\* ever put back.
C9_WalkTerminates ==
    /\ [][pc = "walk" => (PushShape \/ PopShape)]_vars
    /\ [][pc \notin {"read", "build"} => NoEdgeInserted]_vars
    /\ [][pc = "walk" => 2 * EdgeCount(graph') + Len(stack')
                           < 2 * EdgeCount(graph) + Len(stack)]_vars
    /\ [](pc = "join" => stack = <<>>)
    /\ (pc = "walk") ~> (pc = "join")

\* a walk over a graph it cannot exhaust has ended
C9_Witness ==
    /\ pc = "join"
    /\ stack = <<>>
    /\ call = 1
    /\ ~AllConsumed
    /\ Len(path) >= 3

\* C10: a second call of reconstruct_dna on the graph the first call
\* consumed, with the same start node, does not give the first result: the
\* start node has no edge left, the walk visits it alone and the result is
\* the bare start node.
C10_SecondCallDiffers ==
    /\ (call = 1 /\ returned # <<>>) => AdjOf(graph, start_node[1]) = <<>>
    /\ (call = 2 /\ arg = start_node[1] /\ pc = "join") => path = <<arg>>
    /\ (call = 2 /\ arg = start_node[1] /\ pc = "end") =>
          /\ returned[2] # returned[1]
          /\ returned[2] = ok(start_node[1])

\* the second call came back after a first call that reconstructed a string
C10_Witness ==
    /\ call = 2
    /\ pc = "end"
    /\ arg = start_node[1]
    /\ WellFormed
    /\ N >= 3
    /\ returned[1].status = "ok"
    /\ Len(returned[1].value) = N + K - 1
    /\ returned[2] = ok(start_node[1])

====
